---- MODULE Spec2Model ----
(***************************************************************************)
(* svfplayer: the SVF command interpreter of src/main.rs.                  *)
(*                                                                         *)
(* The model follows run_svf: the parser's item sequence (`stream`) is     *)
(* fixed when the run starts, the driver pulls one item at a time and      *)
(* hands every successfully parsed command to Svf::run_command, one action *)
(* per match arm.  The cable and the TAP state machine are external; the   *)
(* model records every call made on them in `ops`, and the bytes a         *)
(* transfer returns are chosen by the environment.                         *)
(***************************************************************************)
EXTENDS Integers, Sequences, FiniteSets, TLC

(***************************************************************************)
(* Bounds and program constants                                            *)
(***************************************************************************)
\* longest command stream explored
MaxCmds == 3

\* largest declared pattern length explored
MaxLength == 300

\* the batch ceiling of the run-test loop (main.rs:166-169)
BatchSize == 100

(***************************************************************************)
(* Values                                                                  *)
(***************************************************************************)
\* Option<T>: None is the empty tuple, Some(x) the one-element tuple
None == <<>>
Some(x) == <<x>>

Min(a, b) == IF a <= b THEN a ELSE b

\* u8 bitwise AND, bit by bit
RECURSIVE BitAnd(_, _)
BitAnd(a, b) ==
    IF a = 0 \/ b = 0 THEN 0
    ELSE (a % 2) * (b % 2) + 2 * BitAnd(a \div 2, b \div 2)

\* svf::State, the 16 protocol states
SvfStates ==
    {"RESET", "IDLE", "DRSELECT", "DRCAPTURE", "DRSHIFT", "DREXIT1", "DRPAUSE",
     "DREXIT2", "DRUPDATE", "IRSELECT", "IRCAPTURE", "IRSHIFT", "IREXIT1",
     "IRPAUSE", "IREXIT2", "IRUPDATE"}

\* mutant of to_jtag_state: the Exit2 arms were copied from the Exit1 arms
to_jtag_state_exit1(state) ==
    CASE state = "RESET" -> "Reset"
      [] state = "IDLE" -> "Idle"
      [] state = "DRSELECT" -> "SelectDR"
      [] state = "DRCAPTURE" -> "CaptureDR"
      [] state = "DRSHIFT" -> "ShiftDR"
      [] state = "DREXIT1" -> "Exit1DR"
      [] state = "DRPAUSE" -> "PauseDR"
      [] state = "DREXIT2" -> "Exit1DR"
      [] state = "DRUPDATE" -> "UpdateDR"
      [] state = "IRSELECT" -> "SelectIR"
      [] state = "IRCAPTURE" -> "CaptureIR"
      [] state = "IRSHIFT" -> "ShiftIR"
      [] state = "IREXIT1" -> "Exit1IR"
      [] state = "IRPAUSE" -> "PauseIR"
      [] state = "IREXIT2" -> "Exit1IR"
      [] state = "IRUPDATE" -> "UpdateIR"

\* Svf::to_jtag_state
to_jtag_state(state) ==
    CASE state = "RESET" -> "Reset"
      [] state = "IDLE" -> "Idle"
      [] state = "DRSELECT" -> "SelectDR"
      [] state = "DRCAPTURE" -> "CaptureDR"
      [] state = "DRSHIFT" -> "ShiftDR"
      [] state = "DREXIT1" -> "Exit1DR"
      [] state = "DRPAUSE" -> "PauseDR"
      [] state = "DREXIT2" -> "Exit2DR"
      [] state = "DRUPDATE" -> "UpdateDR"
      [] state = "IRSELECT" -> "SelectIR"
      [] state = "IRCAPTURE" -> "CaptureIR"
      [] state = "IRSHIFT" -> "ShiftIR"
      [] state = "IREXIT1" -> "Exit1IR"
      [] state = "IRPAUSE" -> "PauseIR"
      [] state = "IREXIT2" -> "Exit2IR"
      [] state = "IRUPDATE" -> "UpdateIR"

(***************************************************************************)
(* Transport calls, as recorded in `ops`                                   *)
(***************************************************************************)
\* JtagSM::change_mode(state)
SmChangeMode(s) == [op |-> "sm.change_mode", state |-> s]

\* Cable::read_write_data(&buf, len, flag)
ReadWriteData(buf, len, flag) ==
    [op |-> "cable.read_write_data", buf |-> buf, len |-> len, flag |-> flag]

\* Cable::change_mode(&vec![0; n], flag)
CableChangeMode(n, flag) == [op |-> "cable.change_mode", tms_zeros |-> n, flag |-> flag]

(***************************************************************************)
(* Commands (svf::Command) and parser items                                *)
(***************************************************************************)
Pattern(length, smask, mask, tdi, tdo) ==
    [length |-> length, smask |-> smask, mask |-> mask, tdi |-> tdi, tdo |-> tdo]

CmdTRST(mode) == [tag |-> "TRST", mode |-> mode]
CmdEndDR(s) == [tag |-> "EndDR", state |-> s]
CmdEndIR(s) == [tag |-> "EndIR", state |-> s]
CmdState(path, end) == [tag |-> "State", path |-> path, end |-> end]
CmdPat(tag, p) == [tag |-> tag, pattern |-> p]
CmdRunTest(rs, form, es) ==
    [tag |-> "RunTest", run_state |-> rs, form |-> form, end_state |-> es]
Clocked(n, clk, time) ==
    [kind |-> "Clocked", run_count |-> n, run_clk |-> clk, time |-> time]
Timed == [kind |-> "Timed"]
CmdFrequency == [tag |-> "Frequency"]
CmdPIO == [tag |-> "PIO"]
\* the Err(ParseError) item of svf::parse_iter
ParseErr == [tag |-> "ParseError"]

\* Shift commands with their register context, and the two end-state commands
ShiftItems ==
    { CmdPat("SIR", Pattern(8, Some(<<240>>), Some(<<240>>), Some(<<170>>), Some(<<160>>))),
      CmdPat("SIR", Pattern(5, None, None, Some(<<15>>), None)),
      CmdPat("SIR", Pattern(0, None, None, None, None)),
      CmdPat("SIR", Pattern(260, None, Some(<<15>>), None, Some(<<160>>))),
      CmdPat("SIR", Pattern(16, Some(<<255, 15>>), Some(<<255, 240>>), Some(<<170, 160>>),
                            Some(<<170, 160>>))),
      CmdPat("SIR", Pattern(8, Some(<<15>>), None, None, Some(<<170>>))),
      CmdPat("SDR", Pattern(8, Some(<<240>>), Some(<<240>>), Some(<<170>>), Some(<<160>>))),
      CmdPat("SDR", Pattern(5, None, None, Some(<<15>>), None)),
      CmdPat("SDR", Pattern(0, None, None, None, None)),
      CmdPat("SDR", Pattern(260, None, Some(<<15>>), None, Some(<<160>>))),
      CmdPat("SDR", Pattern(16, Some(<<255, 15>>), Some(<<255, 240>>), Some(<<170, 160>>),
                            Some(<<170, 160>>))),
      CmdPat("SDR", Pattern(8, Some(<<15>>), None, None, Some(<<170>>))),
      CmdEndIR("IRPAUSE"),
      CmdEndDR("DRPAUSE") }

\* Run-test commands of every form, with and without run/end states
RunItems ==
    { CmdRunTest(None, Clocked(250, "TCK", None), None),
      CmdRunTest(Some("DRPAUSE"), Clocked(100, "TCK", None), Some("IRPAUSE")),
      CmdRunTest(None, Clocked(0, "TCK", None), None),
      CmdRunTest(Some("IRPAUSE"), Clocked(101, "TCK", None), None),
      CmdRunTest(None, Clocked(200, "TCK", None), Some("DRPAUSE")),
      CmdRunTest(Some("RESET"), Timed, Some("DRPAUSE")),
      CmdRunTest(Some("DRPAUSE"), Clocked(5, "SCK", None), Some("RESET")),
      CmdRunTest(None, Clocked(1, "TCK", Some(1)), None),
      CmdState(None, "DRPAUSE"),
      CmdEndDR("DREXIT1") }

\* Every other arm of run_command, and the parser's failure item
MiscItems ==
    { CmdTRST("Off"), CmdTRST("On"),
      CmdState(None, "RESET"), CmdState(None, "IRPAUSE"),
      CmdState(Some(<<"IDLE", "DRSELECT">>), "DRPAUSE"),
      CmdPat("HIR", Pattern(0, None, None, Some(<<170>>), None)),
      CmdPat("HIR", Pattern(8, None, None, Some(<<170>>), None)),
      CmdPat("HDR", Pattern(0, None, None, None, None)),
      CmdPat("HDR", Pattern(8, None, None, Some(<<170>>), None)),
      CmdPat("TIR", Pattern(0, None, None, None, None)),
      CmdPat("TIR", Pattern(8, None, None, Some(<<170>>), None)),
      CmdPat("TDR", Pattern(0, Some(<<15>>), None, None, None)),
      CmdPat("TDR", Pattern(8, None, None, Some(<<170>>), None)),
      CmdEndDR("DRPAUSE"), CmdEndIR("IRPAUSE"),
      CmdFrequency, CmdPIO, ParseErr }

\* all item sequences of length 0..n over S
SeqsUpTo(S, n) == UNION {[1..k -> S] : k \in 0..n}

\* Single commands sweeping one argument: every declared length of a shift, and
\* every protocol state of the commands that translate one
SweepStreams ==
    {<<CmdPat(tag, Pattern(n, Some(<<255>>), None, Some(<<170>>), None))>> :
         tag \in {"SIR", "SDR"}, n \in 1..MaxLength}
        \cup {<<CmdState(None, s)>> : s \in SvfStates}
        \cup {<<CmdEndDR(s)>> : s \in SvfStates}
        \cup {<<CmdEndIR(s)>> : s \in SvfStates}
        \cup {<<CmdRunTest(Some(s), Clocked(1, "TCK", None), Some(s))>> : s \in SvfStates}

\* the streams svf::parse_iter may yield
Streams ==
    SeqsUpTo(ShiftItems, MaxCmds) \cup SeqsUpTo(RunItems, MaxCmds)
        \cup SeqsUpTo(MiscItems, MaxCmds) \cup SweepStreams

\* the byte vectors a transfer may capture
ReadVecs == {<<>>, <<170>>, <<160>>, <<170, 160>>, <<170, 175>>}

(***************************************************************************)
(* State                                                                   *)
(***************************************************************************)
VARIABLES
    stream,      \* items of svf::parse_iter(&contents), in order
    pos,         \* number of items pulled from the iterator
    status,      \* "running", "ok", "parse_error", "unimplemented", "assert_failed"
    dispatched,  \* commands handed to run_command, in call order
    endir, enddr, end_state, run_state,
    sir_smask, sir_mask, sir_tdi,
    sdr_smask, sdr_mask, sdr_tdi,
    ops,         \* calls made on the state machine and the cable, in order
    read         \* bytes captured by the latest transfer

config == <<endir, enddr, end_state, run_state>>
slots == <<sir_smask, sir_mask, sir_tdi, sdr_smask, sdr_mask, sdr_tdi>>
vars == <<stream, pos, status, dispatched, endir, enddr, end_state, run_state,
          sir_smask, sir_mask, sir_tdi, sdr_smask, sdr_mask, sdr_tdi, ops, read>>

\* Svf::new and the start of run_svf
Init ==
    /\ stream \in Streams
    /\ pos = 0
    /\ status = "running"
    /\ dispatched = <<>>
    /\ endir = "Idle"
    /\ enddr = "Idle"
    /\ end_state = "Idle"
    /\ run_state = "Idle"
    /\ sir_smask = <<>>
    /\ sir_mask = <<>>
    /\ sir_tdi = <<>>
    /\ sdr_smask = <<>>
    /\ sdr_mask = <<>>
    /\ sdr_tdi = <<>>
    /\ ops = <<>>
    /\ read = <<>>

(***************************************************************************)
(* Pieces of run_command                                                   *)
(***************************************************************************)
\* mutant of MergeField: an absent field clears the slot
MergeFieldClears(field, slot) == IF field # None THEN field[1] ELSE <<>>

\* `if let Some(v) = pattern.field { self.slot = v }`
MergeField(field, slot) == IF field # None THEN field[1] ELSE slot

\* mutant of FinalBits: a zero remainder is passed on as zero valid bits
FinalBitsZero(length) == (length % 8) % 256

\* `let mut len = (pattern.length % 8) as u8; if len == 0 { len = 8; }`
FinalBits(length) ==
    LET len == (length % 8) % 256
    IN  IF len = 0 THEN 8 ELSE len

\* `for (tdi, mask) in zip(tdi, smask) { buf.push(tdi & mask); }`
MaskedBuf(tdi, smask) ==
    [i \in 1..Min(Len(tdi), Len(smask)) |-> BitAnd(tdi[i], smask[i])]

\* mutant of OutputBuf: the buffer is built before the command's fields are merged
OutputBufStale(pattern, tdi, smask) == MaskedBuf(tdi, smask)

\* the buffer a shift command sends: its fields are merged into the slots first
OutputBuf(pattern, tdi, smask) ==
    MaskedBuf(MergeField(pattern.tdi, tdi), MergeField(pattern.smask, smask))

\* mutant of ShiftOps: the comparison would run before the end-state transition
ShiftOpsNoEnd(shift_state, buf, len, end) ==
    <<SmChangeMode(shift_state), ReadWriteData(buf, len, TRUE)>>

\* change_mode(shift state); read_write_data(&buf, len, true); change_mode(end)
ShiftOps(shift_state, buf, len, end) ==
    <<SmChangeMode(shift_state), ReadWriteData(buf, len, TRUE), SmChangeMode(end)>>

\* mutant of SirMismatch: expected bytes beyond the compare mask are compared whole
SirMismatchPastMask(r, tdo, mask) ==
    \E i \in 1..Min(Len(r), Len(tdo)) :
        r[i] # (IF i <= Len(mask) THEN BitAnd(tdo[i], mask[i]) ELSE tdo[i])

\* the SIR comparison loop: some assert_eq!(*r, tdo & mask) fails
SirMismatch(r, tdo, mask) ==
    \E i \in 1..Min(Len(r), Min(Len(tdo), Len(mask))) :
        r[i] # BitAnd(tdo[i], mask[i])

\* mutant of SdrMismatch: the captured byte is compared unmasked
SdrMismatchUnmasked(r, tdo, mask) ==
    \E i \in 1..Min(Len(r), Min(Len(tdo), Len(mask))) :
        r[i] # BitAnd(tdo[i], mask[i])

\* the SDR comparison loop: some assert_eq!(r & mask, tdo & mask) fails
SdrMismatch(r, tdo, mask) ==
    \E i \in 1..Min(Len(r), Min(Len(tdo), Len(mask))) :
        BitAnd(r[i], mask[i]) # BitAnd(tdo[i], mask[i])

\* mutant of ClockBatches: the remainder below the batch size is never clocked
RECURSIVE ClockBatchesNoRemainder(_)
ClockBatchesNoRemainder(run_count) ==
    IF run_count > BatchSize
    THEN <<BatchSize>> \o ClockBatchesNoRemainder(run_count - BatchSize)
    ELSE <<>>

\* the batch sizes of `while run_count > 0 { ... }`, in order
RECURSIVE ClockBatches(_)
ClockBatches(run_count) ==
    IF run_count > 0
    THEN IF run_count > BatchSize
         THEN <<BatchSize>> \o ClockBatches(run_count - BatchSize)
         ELSE <<run_count>>
    ELSE <<>>

\* the cable calls of the batching loop
ClockOps(run_count) ==
    LET b == ClockBatches(run_count)
    IN  [i \in 1..Len(b) |-> CableChangeMode(b[i], TRUE)]

(***************************************************************************)
(* The driver loop of run_svf                                              *)
(***************************************************************************)
\* mutant of HasNext: the loop goes on to the next item after a failure
HasNextAfterAbort == status # "ok" /\ pos < Len(stream)

\* the loop is live and the iterator has another item
HasNext == status = "running" /\ pos < Len(stream)

\* the item the iterator yields next
cmd == stream[pos + 1]

\* `let cmd = cmd?; svf.run_command(cmd, sm)` for a command of the given tag
Dispatch(tag) ==
    /\ HasNext
    /\ cmd.tag = tag
    /\ pos' = pos + 1
    /\ dispatched' = Append(dispatched, cmd)
    /\ UNCHANGED stream

\* mutant of ParseFail: the malformed item is skipped and the loop goes on
ParseFailSkips ==
    /\ HasNext
    /\ cmd.tag = "ParseError"
    /\ pos' = pos + 1
    /\ UNCHANGED <<stream, status, dispatched, config, slots, ops, read>>

\* `cmd?` on an Err item: run_svf returns the parse error
ParseFail ==
    /\ HasNext
    /\ cmd.tag = "ParseError"
    /\ pos' = pos + 1
    /\ status' = "parse_error"
    /\ UNCHANGED <<stream, dispatched, config, slots, ops, read>>

\* the iterator is exhausted: run_svf returns Ok(())
Finish ==
    /\ status = "running"
    /\ pos = Len(stream)
    /\ status' = "ok"
    /\ UNCHANGED <<stream, pos, dispatched, config, slots, ops, read>>

(***************************************************************************)
(* Svf::run_command, one action per match arm                              *)
(***************************************************************************)
TRST ==
    /\ Dispatch("TRST")
    /\ status' = IF cmd.mode # "Off" THEN "unimplemented" ELSE "running"
    /\ UNCHANGED <<config, slots, ops, read>>

\* mutant of EndDR: the state is stored in the end-of-IR field
EndDRSetsEndIR ==
    /\ Dispatch("EndDR")
    /\ endir' = to_jtag_state(cmd.state)
    /\ UNCHANGED <<status, enddr, end_state, run_state, slots, ops, read>>

EndDR ==
    /\ Dispatch("EndDR")
    /\ enddr' = to_jtag_state(cmd.state)
    /\ UNCHANGED <<status, endir, end_state, run_state, slots, ops, read>>

EndIR ==
    /\ Dispatch("EndIR")
    /\ endir' = to_jtag_state(cmd.state)
    /\ UNCHANGED <<status, enddr, end_state, run_state, slots, ops, read>>

\* mutant of State: the target is also stored as the run-test end state
StateStoresEnd ==
    /\ Dispatch("State")
    /\ IF cmd.path # None
       THEN /\ status' = "assert_failed"
            /\ UNCHANGED <<ops, end_state>>
       ELSE /\ ops' = Append(ops, SmChangeMode(to_jtag_state(cmd.end)))
            /\ end_state' = to_jtag_state(cmd.end)
            /\ UNCHANGED status
    /\ UNCHANGED <<endir, enddr, run_state, slots, read>>

\* mutant of State: the path is ignored and the transition made anyway
StateIgnoresPath ==
    /\ Dispatch("State")
    /\ ops' = Append(ops, SmChangeMode(to_jtag_state(cmd.end)))
    /\ UNCHANGED <<status, config, slots, read>>

State ==
    /\ Dispatch("State")
    /\ IF cmd.path # None
       THEN /\ status' = "assert_failed"
            /\ UNCHANGED ops
       ELSE /\ ops' = Append(ops, SmChangeMode(to_jtag_state(cmd.end)))
            /\ UNCHANGED status
    /\ UNCHANGED <<config, slots, read>>

\* mutant of HeadTail: a non-empty header or trailer is warned about and skipped
HeadTailWarns(tag) ==
    /\ Dispatch(tag)
    /\ UNCHANGED <<status, config, slots, ops, read>>

\* the body shared by the HIR, HDR, TIR and TDR arms
HeadTail(tag) ==
    /\ Dispatch(tag)
    /\ status' = IF cmd.pattern.length # 0 THEN "unimplemented" ELSE "running"
    /\ UNCHANGED <<config, slots, ops, read>>

HIR == HeadTail("HIR")

HDR == HeadTail("HDR")

TIR == HeadTail("TIR")

TDR == HeadTail("TDR")

SIR ==
    /\ Dispatch("SIR")
    /\ sir_smask' = MergeField(cmd.pattern.smask, sir_smask)
    /\ sir_mask' = MergeField(cmd.pattern.mask, sir_mask)
    /\ sir_tdi' = MergeField(cmd.pattern.tdi, sir_tdi)
    /\ ops' = ops \o ShiftOps("ShiftIR", OutputBuf(cmd.pattern, sir_tdi, sir_smask),
                              FinalBits(cmd.pattern.length), endir)
    /\ read' \in ReadVecs
    /\ status' = IF /\ cmd.pattern.tdo # None
                    /\ SirMismatch(read', cmd.pattern.tdo[1], sir_mask')
                 THEN "assert_failed" ELSE "running"
    /\ UNCHANGED <<config, sdr_smask, sdr_mask, sdr_tdi>>

SDR ==
    /\ Dispatch("SDR")
    /\ sdr_smask' = MergeField(cmd.pattern.smask, sdr_smask)
    /\ sdr_mask' = MergeField(cmd.pattern.mask, sdr_mask)
    /\ sdr_tdi' = MergeField(cmd.pattern.tdi, sdr_tdi)
    /\ ops' = ops \o ShiftOps("ShiftDR", OutputBuf(cmd.pattern, sdr_tdi, sdr_smask),
                              FinalBits(cmd.pattern.length), enddr)
    /\ read' \in ReadVecs
    /\ status' = IF /\ cmd.pattern.tdo # None
                    /\ SdrMismatch(read', cmd.pattern.tdo[1], sdr_mask')
                 THEN "assert_failed" ELSE "running"
    /\ UNCHANGED <<config, sir_smask, sir_mask, sir_tdi>>

\* mutant of RunTest: the controller is left in the run state after the batches
RunTestNoEnd ==
    /\ Dispatch("RunTest")
    /\ end_state' = IF cmd.end_state # None
                    THEN to_jtag_state(cmd.end_state[1]) ELSE end_state
    /\ run_state' = IF cmd.run_state # None
                    THEN to_jtag_state(cmd.run_state[1]) ELSE run_state
    /\ LET enter == Append(ops, SmChangeMode(run_state'))
       IN  CASE cmd.form.kind = "Timed" ->
                    /\ status' = "unimplemented"
                    /\ ops' = enter
             [] cmd.form.kind = "Clocked" /\ cmd.form.time # None ->
                    /\ status' = "assert_failed"
                    /\ ops' = enter
             [] cmd.form.kind = "Clocked" /\ cmd.form.time = None
                    /\ cmd.form.run_clk # "TCK" ->
                    /\ status' = "assert_failed"
                    /\ ops' = enter
             [] OTHER ->
                    /\ status' = "running"
                    /\ ops' = enter \o ClockOps(cmd.form.run_count)
    /\ UNCHANGED <<endir, enddr, slots, read>>

RunTest ==
    /\ Dispatch("RunTest")
    /\ end_state' = IF cmd.end_state # None
                    THEN to_jtag_state(cmd.end_state[1]) ELSE end_state
    /\ run_state' = IF cmd.run_state # None
                    THEN to_jtag_state(cmd.run_state[1]) ELSE run_state
    /\ LET enter == Append(ops, SmChangeMode(run_state'))
       IN  CASE cmd.form.kind = "Timed" ->
                    /\ status' = "unimplemented"
                    /\ ops' = enter
             [] cmd.form.kind = "Clocked" /\ cmd.form.time # None ->
                    /\ status' = "assert_failed"
                    /\ ops' = enter
             [] cmd.form.kind = "Clocked" /\ cmd.form.time = None
                    /\ cmd.form.run_clk # "TCK" ->
                    /\ status' = "assert_failed"
                    /\ ops' = enter
             [] OTHER ->
                    /\ status' = "running"
                    /\ ops' = (enter \o ClockOps(cmd.form.run_count))
                                  \o <<SmChangeMode(end_state')>>
    /\ UNCHANGED <<endir, enddr, slots, read>>

\* mutant of Frequency: the command is rejected like an unknown one
FrequencyUnimplemented ==
    /\ Dispatch("Frequency")
    /\ status' = "unimplemented"
    /\ UNCHANGED <<config, slots, ops, read>>

Frequency ==
    /\ Dispatch("Frequency")
    /\ UNCHANGED <<status, config, slots, ops, read>>

\* the `_` arm: every command without an arm of its own
Unhandled ==
    /\ HasNext
    /\ cmd.tag \notin {"TRST", "EndDR", "EndIR", "State", "HIR", "HDR", "TIR", "TDR",
                       "SIR", "SDR", "RunTest", "Frequency", "ParseError"}
    /\ pos' = pos + 1
    /\ dispatched' = Append(dispatched, cmd)
    /\ status' = "unimplemented"
    /\ UNCHANGED <<stream, config, slots, ops, read>>

run_command ==
    \/ TRST \/ EndDR \/ EndIR \/ State
    \/ HIR \/ HDR \/ TIR \/ TDR
    \/ SIR \/ SDR \/ RunTest \/ Frequency \/ Unhandled

\* one iteration of the loop of run_svf, or its return
Next == ParseFail \/ Finish \/ run_command

Spec == Init /\ [][Next]_vars

(***************************************************************************)
(* Properties                                                              *)
(***************************************************************************)
\* the item pulled last
last == stream[pos]

\* a shift command of the given tag was the last item pulled
LastIs(tag) == pos >= 1 /\ last.tag = tag

\* the value of `field` carried by the most recent command with `tag` among the
\* first k items that supplied it, the empty vector if there is none
RECURSIVE LastSupplied(_, _, _)
LastSupplied(tag, field, k) ==
    IF k = 0 THEN <<>>
    ELSE IF stream[k].tag = tag /\ stream[k].pattern[field] # None
         THEN stream[k].pattern[field][1]
         ELSE LastSupplied(tag, field, k - 1)

\* C1: each of the six register-context vectors equals the value carried by the
\* most recent SIR (IR slots) or SDR (DR slots) command that supplied that field,
\* or the empty vector if none did; nothing else ever changes a slot.
C1_StickySlots ==
    /\ sir_smask = LastSupplied("SIR", "smask", pos)
    /\ sir_mask = LastSupplied("SIR", "mask", pos)
    /\ sir_tdi = LastSupplied("SIR", "tdi", pos)
    /\ sdr_smask = LastSupplied("SDR", "smask", pos)
    /\ sdr_mask = LastSupplied("SDR", "mask", pos)
    /\ sdr_tdi = LastSupplied("SDR", "tdi", pos)

\* a third command, an SIR carrying only tdi, has replaced sir_tdi and kept the
\* smask and mask of an earlier SIR, with the DR slots of an SDR in between intact
C1_Witness ==
    /\ pos = 3
    /\ last.tag = "SIR"
    /\ last.pattern.smask = None /\ last.pattern.mask = None
    /\ last.pattern.tdi = Some(<<15>>)
    /\ stream[1].tag = "SIR" /\ stream[2].tag = "SDR"
    /\ sir_tdi = <<15>> /\ sir_smask = <<255, 15>> /\ sir_mask = <<255, 240>>
    /\ sdr_tdi = <<170>>

\* C2: for an SDR with an expected vector, when captured, expected and the DR
\* compare mask have the same byte length, the run fails verification exactly
\* when some byte differs under the mask.
C2_SdrVerify ==
    (/\ LastIs("SDR")
     /\ last.pattern.tdo # None
     /\ Len(read) = Len(last.pattern.tdo[1])
     /\ Len(read) = Len(sdr_mask))
    => (status = "assert_failed"
           <=> \E i \in 1..Len(read) :
                   BitAnd(read[i], sdr_mask[i]) # BitAnd(last.pattern.tdo[1][i], sdr_mask[i]))

\* the SDR of the spec's example passed: captured 0xAA, expected 0xA0, mask 0xF0,
\* the captured low bits lying outside the mask
C2_Witness ==
    /\ LastIs("SDR")
    /\ last.pattern.tdo = Some(<<160>>)
    /\ sdr_mask = <<240>>
    /\ read = <<170>>
    /\ status = "running"

\* C3: for an SIR with an expected vector, when captured, expected and the IR
\* compare mask have the same byte length, the run fails verification exactly
\* when some byte differs under the mask, as for SDR.
C3_SirVerify ==
    (/\ LastIs("SIR")
     /\ last.pattern.tdo # None
     /\ Len(read) = Len(last.pattern.tdo[1])
     /\ Len(read) = Len(sir_mask))
    => (status = "assert_failed"
           <=> \E i \in 1..Len(read) :
                   BitAnd(read[i], sir_mask[i]) # BitAnd(last.pattern.tdo[1][i], sir_mask[i]))

\* C4: the buffer of every SIR/SDR transfer is built from the register context
\* after the command's fields are merged: it has min(len(tdi), len(smask)) bytes
\* and byte i is tdi[i] AND smask[i] of the merged context.
C4_MergedBuffer ==
    \A tag \in {"SIR", "SDR"} :
        LastIs(tag) =>
            LET tdi == LastSupplied(tag, "tdi", pos)
                smask == LastSupplied(tag, "smask", pos)
            IN  /\ Len(ops) >= 3
                /\ ops[Len(ops) - 1].op = "cable.read_write_data"
                /\ Len(ops[Len(ops) - 1].buf) = Min(Len(tdi), Len(smask))
                /\ \A i \in 1..Min(Len(tdi), Len(smask)) :
                       ops[Len(ops) - 1].buf[i] = BitAnd(tdi[i], smask[i])

\* the second of two consecutive SIRs carried another tdi and no smask: its
\* transfer sent the new tdi under the smask retained from the first
C4_Witness ==
    /\ pos = 2
    /\ stream[1].tag = "SIR" /\ stream[1].pattern.tdi = Some(<<170, 160>>)
    /\ stream[1].pattern.smask = Some(<<255, 15>>)
    /\ last.tag = "SIR" /\ last.pattern.tdi = Some(<<15>>)
    /\ last.pattern.smask = None
    /\ ops[1 + 3 + 1] = ReadWriteData(<<15>>, 5, TRUE)

\* the state after a step that pulled an item with this tag
Pulled(tag) == pos' = pos + 1 /\ stream[pos'].tag = tag

\* the calls a step added to the log, or <<>> if the log was not just extended
NewOps ==
    IF Len(ops') >= Len(ops) /\ SubSeq(ops', 1, Len(ops)) = ops
    THEN SubSeq(ops', Len(ops) + 1, Len(ops'))
    ELSE <<>>

\* ops' extends ops by exactly the calls of `new`
Issues(new) == ops' = ops \o new

C5_Step ==
    /\ Pulled("SIR") =>
           /\ Issues(NewOps) /\ Len(NewOps) = 3
           /\ NewOps[1] = SmChangeMode("ShiftIR")
           /\ NewOps[2].op = "cable.read_write_data"
           /\ NewOps[2].buf = [i \in 1..Min(Len(sir_tdi'), Len(sir_smask')) |->
                                   BitAnd(sir_tdi'[i], sir_smask'[i])]
           /\ NewOps[2].flag = TRUE
           /\ NewOps[3] = SmChangeMode(endir)
    /\ Pulled("SDR") =>
           /\ Issues(NewOps) /\ Len(NewOps) = 3
           /\ NewOps[1] = SmChangeMode("ShiftDR")
           /\ NewOps[2].op = "cable.read_write_data"
           /\ NewOps[2].buf = [i \in 1..Min(Len(sdr_tdi'), Len(sdr_smask')) |->
                                   BitAnd(sdr_tdi'[i], sdr_smask'[i])]
           /\ NewOps[2].flag = TRUE
           /\ NewOps[3] = SmChangeMode(enddr)

\* C5: every SIR (SDR) issues exactly a transition to Shift-IR (Shift-DR), one
\* transfer of the output buffer with the flag set, and a transition to the
\* stored end-of-IR (end-of-DR) state, whether or not verification then fails.
C5_ShiftSequence == [][C5_Step]_vars

\* an SIR failed verification with the controller already moved to the end
\* state configured by an earlier EndIR
C5_Witness ==
    /\ LastIs("SIR")
    /\ status = "assert_failed"
    /\ endir = "PauseIR"
    /\ Len(ops) = 3
    /\ ops[1] = SmChangeMode("ShiftIR")
    /\ ops[3] = SmChangeMode("PauseIR")

RECURSIVE SumSeq(_)
SumSeq(q) == IF q = <<>> THEN 0 ELSE q[1] + SumSeq(Tail(q))

\* the calls of one clocked run-test of n cycles: run-state, batches, end-state
C6_Shape(n) ==
    LET k == Len(NewOps) - 2
        size == [i \in 1..k |-> NewOps[i + 1].tms_zeros]
    IN  /\ Issues(NewOps) /\ k >= 0
        /\ NewOps[1] = SmChangeMode(run_state')
        /\ NewOps[k + 2] = SmChangeMode(end_state')
        /\ \A i \in 1..k : /\ NewOps[i + 1].op = "cable.change_mode"
                           /\ size[i] >= 1 /\ size[i] <= 100
                           /\ (i < k => size[i] = 100)
        /\ SumSeq(size) = n
        /\ (n = 0 => k = 0)
        /\ (n = 250 => size = <<100, 100, 50>>)

\* C6 as stated: every clocked run-test on TCK with count n issues the run-state
\* transition, batches of at most 100 summing to n, and the end-state transition.
C6_Batching ==
    [][(Pulled("RunTest") /\ stream[pos'].form.kind = "Clocked"
           /\ stream[pos'].form.run_clk = "TCK")
        => C6_Shape(stream[pos'].form.run_count)]_vars

\* C6 amended: the same for a clocked run-test on TCK that carries no maximum
\* time; the batch sizes sum to n, each is in 1..100, all but the last are 100,
\* none is issued for n = 0, and n = 250 yields [100, 100, 50].
C6_BatchingNoTime ==
    [][(Pulled("RunTest") /\ stream[pos'].form.kind = "Clocked"
           /\ stream[pos'].form.run_clk = "TCK" /\ stream[pos'].form.time = None)
        => C6_Shape(stream[pos'].form.run_count)]_vars

\* a run-test of 250 cycles has completed with the batches 100, 100, 50
C6_Witness ==
    /\ LastIs("RunTest")
    /\ last.form = Clocked(250, "TCK", None)
    /\ status = "running"
    /\ Len(ops) >= 5
    /\ SubSeq(ops, Len(ops) - 4, Len(ops)) =
           <<SmChangeMode(run_state), CableChangeMode(100, TRUE),
             CableChangeMode(100, TRUE), CableChangeMode(50, TRUE),
             SmChangeMode(end_state)>>

\* the ways a run ends early
Aborted == {"parse_error", "unimplemented", "assert_failed"}

\* a TRST with a mode other than Off, or a State with an explicit path
C7_Fatal(c) ==
    \/ c.tag = "TRST" /\ c.mode # "Off"
    \/ c.tag = "State" /\ c.path # None

C7_Step ==
    /\ (pos' = pos + 1 /\ C7_Fatal(stream[pos'])) =>
           /\ status' \in Aborted
           /\ UNCHANGED <<ops, config, slots>>
    /\ (Pulled("TRST") /\ stream[pos'].mode = "Off") =>
           /\ status' = "running"
           /\ UNCHANGED <<ops, config, slots>>
    /\ (pos >= 1 /\ C7_Fatal(last)) =>
           UNCHANGED <<pos, dispatched, status, ops, config, slots>>

\* C7: a TRST with a mode other than Off, and a State with an explicit path, end
\* the run with no transport call and no configuration change, and nothing of the
\* stream is executed after them; a TRST Off changes nothing and the run goes on.
C7_FailFast == [][C7_Step]_vars

\* a TRST On ended the run after an earlier State had acted, a third command
\* still waiting in the stream
C7_Witness ==
    /\ LastIs("TRST") /\ last.mode = "On"
    /\ status = "unimplemented"
    /\ pos = 2 /\ Len(stream) = 3
    /\ stream[1].tag = "State" /\ Len(ops) = 1
    /\ Len(dispatched) = 2

C8_Step ==
    (/\ Pulled("RunTest")
     /\ \/ stream[pos'].form.kind = "Timed"
        \/ stream[pos'].form.kind = "Clocked" /\ stream[pos'].form.run_clk # "TCK")
    => /\ status' \in Aborted
       /\ UNCHANGED <<ops, run_state, end_state>>

\* C8: a RunTest whose form is Timed, or whose clocked form names a clock other
\* than TCK, aborts before any transition or clock batch is issued for it and
\* with the stored run-state and end-state as they were before the command.
C8_RunTestFailFast == [][C8_Step]_vars

\* the commands run so far are the items pulled, in stream order, the failing
\* item excepted; a parse failure is only ever the last item pulled
C9_Order ==
    LET n == IF status = "parse_error" THEN pos - 1 ELSE pos
    IN  /\ n >= 0
        /\ dispatched = SubSeq(stream, 1, n)
        /\ \A k \in 1..n : stream[k].tag # "ParseError"
        /\ status = "parse_error" => stream[pos].tag = "ParseError"

C9_Step ==
    /\ pos' \in {pos, pos + 1}
    /\ Issues(NewOps)
    /\ Pulled("ParseError") =>
           /\ status' = "parse_error"
           /\ UNCHANGED <<dispatched, ops, config, slots>>
    /\ status = "parse_error" =>
           UNCHANGED <<pos, dispatched, status, ops, config, slots>>

\* C9: commands are dispatched in the parser's order, each at most once; on a
\* parse failure at position k the commands before it have run and their effects
\* stay, the failing item issues no call and changes no configuration, nothing
\* after it is pulled, and the run returns the parse error.
C9_DriverOrder == []C9_Order /\ [][C9_Step]_vars

\* the run returned a parse error at the second item: the State before it was
\* executed, the State after it never pulled
C9_Witness ==
    /\ status = "parse_error"
    /\ pos = 2 /\ Len(stream) = 3
    /\ stream[1].tag = "State" /\ stream[3].tag = "State"
    /\ dispatched = <<stream[1]>>
    /\ ops = <<SmChangeMode(to_jtag_state(stream[1].end))>>

C10_Step ==
    status \in Aborted =>
        UNCHANGED <<pos, dispatched, status, ops, config, slots, read>>

\* C10: once a fatal error has occurred (unsupported feature, verification
\* mismatch or parse error) no transport call is issued, no stored configuration
\* changes and no command is dispatched again.
C10_AbortTerminal == [][C10_Step]_vars

\* an SDR failed verification as the first of three commands
C10_Witness ==
    /\ LastIs("SDR")
    /\ status = "assert_failed"
    /\ pos = 1 /\ Len(stream) = 3
    /\ Len(ops) = 3

\* the translation of the state carried by the most recent EndDR or EndIR (`tag`)
\* among the first k items, Idle if there is none
RECURSIVE LastEnd(_, _)
LastEnd(tag, k) ==
    IF k = 0 THEN "Idle"
    ELSE IF stream[k].tag = tag
         THEN to_jtag_state(stream[k].state)
         ELSE LastEnd(tag, k - 1)

\* the translation of the run_state or end_state (`field`) carried by the most
\* recent RunTest among the first k items that supplied it, Idle if there is none
RECURSIVE LastRunField(_, _)
LastRunField(field, k) ==
    IF k = 0 THEN "Idle"
    ELSE IF stream[k].tag = "RunTest" /\ stream[k][field] # None
         THEN to_jtag_state(stream[k][field][1])
         ELSE LastRunField(field, k - 1)

C11_Stored ==
    /\ enddr = LastEnd("EndDR", pos)
    /\ endir = LastEnd("EndIR", pos)
    /\ end_state = LastRunField("end_state", pos)
    /\ run_state = LastRunField("run_state", pos)

C11_Step ==
    Pulled("RunTest") =>
        /\ Issues(NewOps) /\ Len(NewOps) >= 1
        /\ NewOps[1] = SmChangeMode(LastRunField("run_state", pos'))
        /\ status' = "running" =>
               NewOps[Len(NewOps)] = SmChangeMode(LastRunField("end_state", pos'))

\* C11: each of the four stored states is the translation of the value most
\* recently supplied by its own source (EndDR, EndIR, RunTest end_state, RunTest
\* run_state), Idle if none was; a RunTest uses these values for its transitions,
\* and no command changes a stored state other than its own.
C11_StoredStates == []C11_Stored /\ [][C11_Step]_vars

\* a RunTest without run_state and end_state ran in the states an earlier
\* RunTest stored, an EndDR in between having changed end-of-DR only
C11_Witness ==
    /\ pos = 3
    /\ stream[1].tag = "RunTest" /\ stream[2].tag = "EndDR"
    /\ LastIs("RunTest")
    /\ last.run_state = None /\ last.end_state = None
    /\ status = "running"
    /\ run_state = "PauseDR" /\ end_state = "PauseIR"
    /\ enddr = "Exit1DR" /\ endir = "Idle"
    /\ ops[Len(ops)] = SmChangeMode("PauseIR")

\* C12: the valid-bit count of every SIR/SDR transfer is in 1..8: it is
\* length mod 8 when that is nonzero and 8 when the length is a multiple of 8,
\* zero included, for lengths above 255 as well.
C12_FinalBits ==
    \A tag \in {"SIR", "SDR"} :
        LastIs(tag) =>
            LET length == last.pattern.length
                len == ops[Len(ops) - 1].len
            IN  /\ len \in 1..8
                /\ length % 8 # 0 => len = length % 8
                /\ length % 8 = 0 => len = 8
                /\ length \in 1..7 => len = length

\* an SDR of 264 bits, a multiple of 8 above 255, was transferred with 8 valid
\* bits in its final byte
C12_Witness ==
    /\ LastIs("SDR")
    /\ last.pattern.length = 264
    /\ ops[2] = ReadWriteData(<<170>>, 8, TRUE)

\* C13: an SIR/SDR of declared length 0 is transferred with 8 final bits and an
\* empty output buffer, whatever shift commands preceded it.
C13_ZeroLength ==
    \A tag \in {"SIR", "SDR"} :
        (LastIs(tag) /\ last.pattern.length = 0) =>
            /\ ops[Len(ops) - 1].len = 8
            /\ ops[Len(ops) - 1].buf = <<>>

\* the header and trailer commands
HeadTailTags == {"HIR", "HDR", "TIR", "TDR"}

\* the commands run_command has an arm for
HandledTags ==
    {"TRST", "EndDR", "EndIR", "State", "SIR", "SDR", "RunTest", "Frequency"}
        \cup HeadTailTags

\* a header or trailer of nonzero length, or a command outside the handled set
C14_Fatal(c) ==
    \/ c.tag \in HeadTailTags /\ c.pattern.length # 0
    \/ c.tag \notin HandledTags \cup {"ParseError"}

C14_Step ==
    /\ (pos' = pos + 1 /\ C14_Fatal(stream[pos'])) =>
           /\ status' = "unimplemented"
           /\ UNCHANGED <<ops, config, slots>>
    /\ (pos' = pos + 1 /\ stream[pos'].tag \in HeadTailTags
           /\ stream[pos'].pattern.length = 0) =>
           /\ status' = "running"
           /\ UNCHANGED <<ops, config, slots>>
    /\ (pos >= 1 /\ C14_Fatal(last)) =>
           UNCHANGED <<pos, dispatched, status, ops, config, slots>>

\* C14: an HIR, HDR, TIR or TDR of nonzero length, and any command outside the
\* handled set, end the run at once with no transport call and no configuration
\* change; one of length 0 issues no call, changes nothing, whatever fields it
\* carries, and the run goes on.
C14_HeadTail == [][C14_Step]_vars

\* a zero-length TDR carrying an smask was passed over, the HDR of 8 bits after
\* it ended the run, a third command still in the stream
C14_Witness ==
    /\ pos = 2 /\ Len(stream) = 3
    /\ stream[1].tag = "TDR" /\ stream[1].pattern.length = 0
    /\ stream[1].pattern.smask = Some(<<15>>)
    /\ LastIs("HDR") /\ last.pattern.length = 8
    /\ status = "unimplemented"
    /\ ops = <<>> /\ sdr_smask = <<>>
    /\ Len(dispatched) = 2

C15_Step ==
    Pulled("Frequency") =>
        /\ status' = "running"
        /\ UNCHANGED <<ops, config, slots>>

\* C15: a Frequency command never aborts the run, issues no transport call and
\* leaves the four stored states and the six register vectors unchanged, so the
\* command after it runs from the same state as without it.
C15_Frequency == [][C15_Step]_vars

\* a State command ran after a Frequency command as it did before it
C15_Witness ==
    /\ pos = 3
    /\ stream[1].tag = "State" /\ stream[2].tag = "Frequency"
    /\ stream[3] = stream[1]
    /\ status = "running"
    /\ ops = <<SmChangeMode(to_jtag_state(stream[1].end)),
               SmChangeMode(to_jtag_state(stream[1].end))>>

\* each protocol state with the controller state of the same name
NamePairs ==
    {<<"RESET", "Reset">>, <<"IDLE", "Idle">>,
     <<"DRSELECT", "SelectDR">>, <<"DRCAPTURE", "CaptureDR">>,
     <<"DRSHIFT", "ShiftDR">>, <<"DREXIT1", "Exit1DR">>,
     <<"DRPAUSE", "PauseDR">>, <<"DREXIT2", "Exit2DR">>,
     <<"DRUPDATE", "UpdateDR">>,
     <<"IRSELECT", "SelectIR">>, <<"IRCAPTURE", "CaptureIR">>,
     <<"IRSHIFT", "ShiftIR">>, <<"IREXIT1", "Exit1IR">>,
     <<"IRPAUSE", "PauseIR">>, <<"IREXIT2", "Exit2IR">>,
     <<"IRUPDATE", "UpdateIR">>}

\* the controller state named like protocol state s
SameName(s) == (CHOOSE p \in NamePairs : p[1] = s)[2]

\* the protocol states translated to controller state j
Preimage(j) == {s \in SvfStates : to_jtag_state(s) = j}

\* C16: the translator maps every one of the 16 protocol states to the controller
\* state of the same name and no two of them to the same controller state, so the
\* state a command stored or moved to determines the protocol state it named
\* (State, EndDR and EndIR are run with each of the 16 states).
C16_Translation ==
    /\ (LastIs("State") /\ last.path = None) =>
           /\ ops[Len(ops)] = SmChangeMode(SameName(last.end))
           /\ Preimage(ops[Len(ops)].state) = {last.end}
    /\ LastIs("EndDR") =>
           enddr = SameName(last.state) /\ Preimage(enddr) = {last.state}
    /\ LastIs("EndIR") =>
           endir = SameName(last.state) /\ Preimage(endir) = {last.state}

\* an EndDR naming DREXIT2 stored Exit2DR, which translates back to DREXIT2 only
C16_Witness ==
    /\ LastIs("EndDR")
    /\ last.state = "DREXIT2"
    /\ enddr = "Exit2DR"
    /\ Preimage(enddr) = {"DREXIT2"}

\* the run-test completed: the run goes on and the last call issued is the
\* transition to the stored end state
C17_Completes ==
    /\ status' = "running"
    /\ Issues(NewOps) /\ Len(NewOps) >= 2
    /\ NewOps[Len(NewOps)] = SmChangeMode(end_state')

\* C17 as stated: every clocked RunTest on TCK, with or without a time clause,
\* completes: it does not abort, its loop ends and the end-state transition is
\* issued.
C17_ClockedCompletes ==
    [][(Pulled("RunTest") /\ stream[pos'].form.kind = "Clocked"
           /\ stream[pos'].form.run_clk = "TCK")
        => C17_Completes]_vars

\* C17 amended: every clocked RunTest on TCK that carries no time clause
\* completes, for every cycle count.
C17_ClockedNoTimeCompletes ==
    [][(Pulled("RunTest") /\ stream[pos'].form.kind = "Clocked"
           /\ stream[pos'].form.run_clk = "TCK" /\ stream[pos'].form.time = None)
        => C17_Completes]_vars

\* a run-test of 101 cycles, two batches, has ended in the stored end state
C17_Witness ==
    /\ pos = 1 /\ LastIs("RunTest")
    /\ last.form = Clocked(101, "TCK", None)
    /\ status = "running"
    /\ ops = <<SmChangeMode("PauseIR"), CableChangeMode(100, TRUE),
               CableChangeMode(1, TRUE), SmChangeMode("Idle")>>

C18_Step ==
    (Pulled("State") /\ stream[pos'].path = None) =>
        /\ ops' = Append(ops, SmChangeMode(to_jtag_state(stream[pos'].end)))
        /\ status' = "running"
        /\ UNCHANGED <<config, slots>>

\* C18: a State command without a path issues exactly one transport call, the
\* transition to the translation of its end state, whatever the stored states
\* are, and leaves all stored configuration unchanged.
C18_StateCommand == [][C18_Step]_vars

\* a State to RESET ran after EndDR and EndIR had changed the stored end states,
\* which it left alone
C18_Witness ==
    /\ pos = 3 /\ LastIs("State")
    /\ last.path = None /\ last.end = "RESET"
    /\ enddr = "PauseDR" /\ endir = "PauseIR"
    /\ end_state = "Idle" /\ run_state = "Idle"
    /\ ops = <<SmChangeMode("Reset")>>
    /\ status = "running"

\* the compare mask of the register a shift command addresses
MaskOf(tag) == IF tag = "SIR" THEN sir_mask ELSE sdr_mask

\* C19: verification looks only at the first min(len(captured), len(expected),
\* len(compare mask)) bytes: a failure needs a differing byte among them, and
\* with an empty compare mask an SIR/SDR carrying an expected vector never fails.
C19_ComparedPrefix ==
    \A tag \in {"SIR", "SDR"} :
        (LastIs(tag) /\ last.pattern.tdo # None) =>
            LET tdo == last.pattern.tdo[1]
                mask == MaskOf(tag)
                n == Min(Len(read), Min(Len(tdo), Len(mask)))
            IN  /\ status = "assert_failed" =>
                       \E i \in 1..n : read[i] # BitAnd(tdo[i], mask[i])
                /\ (\A i \in 1..n : read[i] = BitAnd(tdo[i], mask[i])) =>
                       status # "assert_failed"
                /\ mask = <<>> => status # "assert_failed"

\* an SIR expecting 0xAA captured 0xA0 and passed: no IR compare mask was ever
\* supplied
C19_Witness ==
    /\ LastIs("SIR")
    /\ last.pattern.tdo = Some(<<170>>)
    /\ sir_mask = <<>>
    /\ read = <<160>>
    /\ status = "running"

====
